---- MODULE Spec2Model ----
(***************************************************************************)
(* A model of bip39-rs: the mnemonic codec (entropy <-> phrase with an     *)
(* embedded checksum), phrase validation and seed derivation.              *)
(*                                                                         *)
(* Strings are modelled as sequences of their UTF-8 bytes (all text that   *)
(* occurs here is ASCII), byte vectors as sequences of 0..255, bit vectors *)
(* as sequences of BOOLEAN.  The digest and the key-derivation function    *)
(* come from an external crate (ring); they are modelled by deterministic  *)
(* stand-ins of the right output length that depend on every input byte.   *)
(***************************************************************************)
EXTENDS Integers, Sequences, FiniteSets, TLC

(***************************************************************************)
(* Bounds of the model.                                                    *)
(***************************************************************************)
\* number of distinct fill bytes the entropy inputs are built from
NumFill == 2
\* number of replacement wordlist entries tried at a position of a phrase
NumRepl == 3

(***************************************************************************)
(* Characters (ASCII codes).                                               *)
(***************************************************************************)
\* the space character; tab is 9 and line feed is 10
SP == 32

\* char::is_whitespace restricted to ASCII
IsWhitespace(c) == c \in {9, 10, 11, 12, 13, 32}

\* u8::to_ascii_uppercase
to_uppercase(c) == IF c >= 97 /\ c <= 122 THEN c - 32 ELSE c

Pow2(n) == 2 ^ n

\* bit `k` (0 = most significant) of the byte `b`
ByteBit(b, k) == ((b \div Pow2(7 - k)) % 2) = 1

(***************************************************************************)
(* str::split(" "): the pieces between single spaces; the empty string     *)
(* gives one empty piece, and adjacent, leading or trailing spaces give    *)
(* empty pieces.                                                           *)
(***************************************************************************)
\* the position of the first space at or after i (Len(s) + 1 if none)
RECURSIVE NextSpace(_, _)
NextSpace(s, i) ==
    IF i > Len(s) \/ s[i] = SP THEN i ELSE NextSpace(s, i + 1)

\* the pieces of s from position i on
RECURSIVE SplitFrom(_, _)
SplitFrom(s, i) ==
    LET p == NextSpace(s, i)
    IN  <<SubSeq(s, i, p - 1)>> \o (IF p > Len(s) THEN <<>> ELSE SplitFrom(s, p + 1))

\* variant: empty pieces are left out
split_nonempty(s) == SelectSeq(SplitFrom(s, 1), LAMBDA piece : piece # <<>>)

split(s) == SplitFrom(s, 1)

(***************************************************************************)
(* str::split_whitespace: the maximal runs of non-whitespace characters,   *)
(* in order; never an empty piece.                                         *)
(***************************************************************************)
\* the pieces of s[i..hi], scanning left to right; cur is the piece being read
RECURSIVE ScanWhitespace(_, _, _, _)
ScanWhitespace(s, i, hi, cur) ==
    IF i > hi THEN (IF cur = <<>> THEN <<>> ELSE <<cur>>)
    ELSE IF IsWhitespace(s[i])
         THEN (IF cur = <<>> THEN <<>> ELSE <<cur>>) \o ScanWhitespace(s, i + 1, hi, <<>>)
         ELSE ScanWhitespace(s, i + 1, hi, Append(cur, s[i]))

\* the first whitespace position at or after i (hi if there is none)
RECURSIVE NextWhitespace(_, _, _)
NextWhitespace(s, i, hi) ==
    IF i >= hi \/ IsWhitespace(s[i]) THEN i ELSE NextWhitespace(s, i + 1, hi)

\* a long text is cut at a whitespace near its middle and the halves are
\* scanned separately, which gives the same pieces as one scan
RECURSIVE SplitWhitespaceRange(_, _, _)
SplitWhitespaceRange(s, lo, hi) ==
    IF hi - lo < 64 THEN ScanWhitespace(s, lo, hi, <<>>)
    ELSE LET p == NextWhitespace(s, (lo + hi) \div 2, hi)
         IN  SplitWhitespaceRange(s, lo, p) \o SplitWhitespaceRange(s, p + 1, hi)

split_whitespace(s) == SplitWhitespaceRange(s, 1, Len(s))

(***************************************************************************)
(* The embedded word lists.  The text assets are not part of the sources;  *)
(* each is modelled as 2048 distinct lower-case three-letter words, one    *)
(* per line.  English uses the letters a..p, French the letters k..z, so   *)
(* the two lists share some words but not their order.                     *)
(***************************************************************************)
WORDS == 2048

Languages == {"English", "French"}

FirstLetter(lang) == IF lang = "English" THEN 97 ELSE 107

AssetWord(lang, i) ==
    IF lang = "English"
    THEN <<FirstLetter(lang) + (i \div 256), FirstLetter(lang) + ((i \div 16) % 16),
           FirstLetter(lang) + (i % 16)>>
    ELSE <<FirstLetter(lang) + (i % 16), FirstLetter(lang) + ((i \div 16) % 16),
           FirstLetter(lang) + (i \div 256)>>

\* include_str!: the text of the asset
BIP39_WORDLIST(lang) ==
    [k \in 1..(4 * WORDS) |->
        IF k % 4 = 0 THEN 10 ELSE AssetWord(lang, (k - 1) \div 4)[k % 4]]

BIP39_WORDLIST_ENGLISH == BIP39_WORDLIST("English")
BIP39_WORDLIST_FRENCH == BIP39_WORDLIST("French")

\* variant: every word keeps the line feed that ends its line
gen_wordlist_keep_line_feed(lang_words) ==
    LET inner == split_whitespace(lang_words)
    IN  [i \in 1..Len(inner) |-> Append(inner[i], 10)]

gen_wordlist(lang_words) == split_whitespace(lang_words)

WORDLIST_ENGLISH == gen_wordlist(BIP39_WORDLIST_ENGLISH)
WORDLIST_FRENCH == gen_wordlist(BIP39_WORDLIST_FRENCH)

\* Bip39::get_wordlist / Language::wordlist; indices are 0-based in the code
get_wordlist(lang) == IF lang = "English" THEN WORDLIST_ENGLISH ELSE WORDLIST_FRENCH

(***************************************************************************)
(* Results.  A Result is Ok(value) or Err(kind); a panic (a failed unwrap  *)
(* or assert!) is a third outcome, with no value.                          *)
(***************************************************************************)
Ok(v) == [kind |-> "Ok", err |-> "none", val |-> v]
Err(e, none) == [kind |-> "Err", err |-> e, val |-> none]
Panic(none) == [kind |-> "Panic", err |-> "none", val |-> none]

(***************************************************************************)
(* MnemonicType (mnemonic_type.rs) and its older twin KeyType              *)
(* (keytype.rs), whose variants Key128..Key256 are the same five profiles. *)
(***************************************************************************)
MnemonicTypes ==
    {"Type12Words", "Type15Words", "Type18Words", "Type21Words", "Type24Words"}

NoType == "none"

for_word_count(size) ==
    CASE size = 12 -> Ok("Type12Words")
      [] size = 15 -> Ok("Type15Words")
      [] size = 18 -> Ok("Type18Words")
      [] size = 21 -> Ok("Type21Words")
      [] size = 24 -> Ok("Type24Words")
      [] OTHER -> Err("InvalidWordLength", NoType)

\* variant: two arms of the match are exchanged
for_key_size_exchanged(size) ==
    CASE size = 128 -> Ok("Type12Words")
      [] size = 160 -> Ok("Type15Words")
      [] size = 192 -> Ok("Type18Words")
      [] size = 224 -> Ok("Type24Words")
      [] size = 256 -> Ok("Type21Words")
      [] OTHER -> Err("InvalidKeysize", NoType)

for_key_size(size) ==
    CASE size = 128 -> Ok("Type12Words")
      [] size = 160 -> Ok("Type15Words")
      [] size = 192 -> Ok("Type18Words")
      [] size = 224 -> Ok("Type21Words")
      [] size = 256 -> Ok("Type24Words")
      [] OTHER -> Err("InvalidKeysize", NoType)

\* MnemonicType::for_phrase
for_phrase(phrase) ==
    LET v == split(phrase)
    IN  CASE Len(v) = 12 -> Ok("Type12Words")
          [] Len(v) = 15 -> Ok("Type15Words")
          [] Len(v) = 18 -> Ok("Type18Words")
          [] Len(v) = 21 -> Ok("Type21Words")
          [] Len(v) = 24 -> Ok("Type24Words")
          [] OTHER -> Err("InvalidWordLength", NoType)

\* KeyType::for_mnemonic
for_mnemonic(mnemonic) ==
    LET v == split(mnemonic)
    IN  CASE Len(v) = 12 -> Ok("Type12Words")
          [] Len(v) = 15 -> Ok("Type15Words")
          [] Len(v) = 18 -> Ok("Type18Words")
          [] Len(v) = 21 -> Ok("Type21Words")
          [] Len(v) = 24 -> Ok("Type24Words")
          [] OTHER -> Err("InvalidWordLength", NoType)

total_bits(t) ==
    CASE t = "Type12Words" -> 132
      [] t = "Type15Words" -> 165
      [] t = "Type18Words" -> 198
      [] t = "Type21Words" -> 231
      [] t = "Type24Words" -> 264

entropy_bits(t) ==
    CASE t = "Type12Words" -> 128
      [] t = "Type15Words" -> 160
      [] t = "Type18Words" -> 192
      [] t = "Type21Words" -> 224
      [] t = "Type24Words" -> 256

\* variant: the 21-word arm repeats the value of the 24-word arm
checksum_bits_repeated(t) ==
    CASE t = "Type12Words" -> 4
      [] t = "Type15Words" -> 5
      [] t = "Type18Words" -> 6
      [] t = "Type21Words" -> 8
      [] t = "Type24Words" -> 8

checksum_bits(t) ==
    CASE t = "Type12Words" -> 4
      [] t = "Type15Words" -> 5
      [] t = "Type18Words" -> 6
      [] t = "Type21Words" -> 7
      [] t = "Type24Words" -> 8

word_count(t) ==
    CASE t = "Type12Words" -> 12
      [] t = "Type15Words" -> 15
      [] t = "Type18Words" -> 18
      [] t = "Type21Words" -> 21
      [] t = "Type24Words" -> 24

(***************************************************************************)
(* crypto.rs.  The digests are computed by the external crate ring; here   *)
(* DigestState combines every input byte with its position and the output  *)
(* bytes are derived from that and the input length.                       *)
(***************************************************************************)
PBKDF2_ROUNDS == 2048
PBKDF2_BYTES == 64
SHA256_BYTES == 32

\* the contribution of the bytes input[lo..hi]: each byte weighted by its
\* position, summed modulo a prime (halving keeps the evaluation shallow)
RECURSIVE DigestState(_, _, _)
DigestState(input, lo, hi) ==
    IF lo > hi THEN 0
    ELSE IF lo = hi THEN ((input[lo] + 1) * (((lo * lo * 31 + lo * 7) % 251) + 1)) % 65521
    ELSE LET mid == (lo + hi) \div 2
         IN  (DigestState(input, lo, mid) + DigestState(input, mid + 1, hi)) % 65521

sha256(input) ==
    LET h == (DigestState(input, 1, Len(input)) + 5381 + Len(input)) % 65521
    IN  [j \in 1..SHA256_BYTES |-> (((h + 131 * j) * (2 * j + 1)) \div 3) % 256]

\* variant: the output buffer has the length of a SHA-256 digest
pbkdf2_short_output(input, salt) ==
    LET p == (DigestState(input, 1, Len(input)) + 977 + Len(input)) % 65521
        q == (DigestState(salt, 1, Len(salt)) + 311 + Len(salt)) % 65521
    IN  [j \in 1..SHA256_BYTES |->
            (((p * 31 + q * 17 + j * 101 + PBKDF2_ROUNDS) * (2 * j + 1)) \div 5) % 256]

\* pbkdf2::derive(SHA512, PBKDF2_ROUNDS, salt, input, &mut seed)
pbkdf2(input, salt) ==
    LET p == (DigestState(input, 1, Len(input)) + 977 + Len(input)) % 65521
        q == (DigestState(salt, 1, Len(salt)) + 311 + Len(salt)) % 65521
    IN  [j \in 1..PBKDF2_BYTES |->
            (((p * 31 + q * 17 + j * 101 + PBKDF2_ROUNDS) * (2 * j + 1)) \div 5) % 256]

(***************************************************************************)
(* util.rs                                                                 *)
(***************************************************************************)
\* Extract the first `bits` from the `source` byte:  source >> (8 - bits)
checksum(source, bits) == source \div Pow2(8 - bits)

(***************************************************************************)
(* Bit vectors (bit_vec::BitVec) and the bit reader (bitreader::BitReader).*)
(***************************************************************************)
\* variant: least significant bit of each byte first
from_bytes_lsb_first(bytes) ==
    [k \in 1..(8 * Len(bytes)) |-> ByteBit(bytes[((k - 1) \div 8) + 1], 7 - ((k - 1) % 8))]

\* BitVec::from_bytes: most significant bit of each byte first
from_bytes(bytes) ==
    [k \in 1..(8 * Len(bytes)) |-> ByteBit(bytes[((k - 1) \div 8) + 1], (k - 1) % 8)]

\* the value of the bits b[lo..hi], most significant first
RECURSIVE BitsValue(_, _, _, _)
BitsValue(b, lo, hi, acc) ==
    IF lo > hi THEN acc
    ELSE BitsValue(b, lo + 1, hi, 2 * acc + (IF b[lo] THEN 1 ELSE 0))

\* BitVec::to_bytes: eight bits per byte, the last byte padded with zero bits
to_bytes(b) ==
    [j \in 1..((Len(b) + 7) \div 8) |->
        LET lo == 8 * (j - 1) + 1
            hi == IF 8 * j <= Len(b) THEN 8 * j ELSE Len(b)
        IN  BitsValue(b, lo, hi, 0) * Pow2(8 * j - hi)]

\* iter.skip(n).take(k) on a bit vector
skip_take(b, n, k) ==
    LET avail == IF Len(b) > n THEN Len(b) - n ELSE 0
        m == IF k < avail THEN k ELSE avail
    IN  [i \in 1..m |-> b[n + i]]

\* BitReader::read_u16(bit_count) at bit position pos: the next bits, most
\* significant first, or an error when fewer than bit_count bits are left
RECURSIVE ReadValue(_, _, _, _)
ReadValue(bytes, pos, n, acc) ==
    IF n = 0 THEN acc
    ELSE ReadValue(bytes, pos + 1, n - 1,
                   2 * acc + (IF ByteBit(bytes[(pos \div 8) + 1], pos % 8) THEN 1 ELSE 0))

read_u16(bytes, pos, bit_count) ==
    IF pos + bit_count > 8 * Len(bytes)
    THEN [ok |-> FALSE, value |-> 0]
    ELSE [ok |-> TRUE, value |-> ReadValue(bytes, pos, bit_count, 0)]

\* [&str]::join(" ")
RECURSIVE JoinFrom(_, _)
JoinFrom(words, i) ==
    IF i > Len(words) THEN <<>>
    ELSE IF i = Len(words) THEN words[i]
    ELSE words[i] \o <<SP>> \o JoinFrom(words, i + 1)

join(words) == JoinFrom(words, 1)

(***************************************************************************)
(* Word maps: word -> index, built by inserting (word, i) for i = 0, 1, .. *)
(* so that a repeated word keeps its last index.                           *)
(***************************************************************************)
\* variant: the indices are counted from 1
gen_wordmap_from_one(word_list) ==
    [w \in {word_list[i] : i \in 1..Len(word_list)} |->
        CHOOSE i \in 1..Len(word_list) :
            /\ word_list[i] = w
            /\ \A j \in (i + 1)..Len(word_list) : word_list[j] # w]

gen_wordmap(word_list) ==
    [w \in {word_list[i] : i \in 1..Len(word_list)} |->
        CHOOSE i \in 0..(Len(word_list) - 1) :
            /\ word_list[i + 1] = w
            /\ \A j \in (i + 1)..(Len(word_list) - 1) : word_list[j + 1] # w]

WORDMAP_ENGLISH == gen_wordmap(WORDLIST_ENGLISH)
WORDMAP_FRENCH == gen_wordmap(WORDLIST_FRENCH)

\* the word_map built in Bip39::validate / Language::wordmap
get_wordmap(lang) == IF lang = "English" THEN WORDMAP_ENGLISH ELSE WORDMAP_FRENCH

(***************************************************************************)
(* bip39.rs                                                                *)
(***************************************************************************)
\* the value of struct Bip39 { mnemonic, seed, lang }
NoBip39 == [mnemonic |-> <<>>, seed |-> <<>>, lang |-> "none"]

Unit == "()"

\* "mnemonic" as bytes
MNEMONIC_SALT == <<109, 110, 101, 109, 111, 110, 105, 99>>

\* variant: the position counted from the least significant bit
bit_from_u16_lsb_first(input, position) ==
    IF position < 11 THEN ((input \div Pow2(position)) % 2) = 1 ELSE FALSE

bit_from_u16_as_u11(input, position) ==
    IF position < 11 THEN ((input \div Pow2(10 - position)) % 2) = 1 ELSE FALSE

generate_seed(entropy, password) ==
    LET salt == MNEMONIC_SALT \o password
    IN  pbkdf2(entropy, salt)

\* WordList::get_word: the word at an index of the list
get_word(word_list, bits) == word_list[bits + 1]

\* variant: the word is lower-cased before it is looked up
get_bits_ignore_case(word_map, word) ==
    LET w == [i \in 1..Len(word) |->
                 IF word[i] >= 65 /\ word[i] <= 90 THEN word[i] + 32 ELSE word[i]]
    IN  IF w \in DOMAIN word_map THEN Ok(word_map[w]) ELSE Err("InvalidWord", 0)

\* WordMap::get_bits / word_map.get(word): the index of the word, or InvalidWord
get_bits(word_map, word) ==
    IF word \in DOMAIN word_map THEN Ok(word_map[word]) ELSE Err("InvalidWord", 0)

\* variant: the loop takes the whitespace-separated words
phrase_words_whitespace(mnemonic) == split_whitespace(mnemonic)

\* the words the loop of validate looks up: m.split(" ")
phrase_words(mnemonic) == split(mnemonic)

\* the bits pushed for the words of a phrase whose words are all in word_map
to_validate(words, word_map) ==
    [k \in 1..(11 * Len(words)) |->
        bit_from_u16_as_u11(get_bits(word_map, words[((k - 1) \div 11) + 1]).val,
                            (k - 1) % 11)]

\* the entropy bytes that validate hashes: the first entropy_bits bits
entropy_to_validate(mnemonic, lang) ==
    LET key_type == for_mnemonic(mnemonic).val
        bits == to_validate(phrase_words(mnemonic), get_wordmap(lang))
    IN  to_bytes(skip_take(bits, 0, entropy_bits(key_type)))

\* variant: the comparison is left out
checksum_matches_always(new_checksum, checksum_to_validate) == TRUE

\* new_checksum == checksum_to_validate on bit vectors
checksum_matches(new_checksum, checksum_to_validate) ==
    new_checksum = checksum_to_validate

\* variant: the words are looked up before the number of words is checked,
\* and the checksum is compared as before
validate_words_first(mnemonic, lang) ==
    LET word_map == get_wordmap(lang)
        words == phrase_words(mnemonic)
        kt == for_mnemonic(mnemonic)
    IN  IF \E i \in 1..Len(words) : get_bits(word_map, words[i]).kind # "Ok"
        THEN Err("InvalidWord", Unit)
        ELSE IF kt.kind # "Ok" THEN Err(kt.err, Unit)
        ELSE
        LET key_type == kt.val
            bits == to_validate(words, word_map)
            checksum_to_validate ==
                skip_take(bits, entropy_bits(key_type), checksum_bits(key_type))
            entropy == skip_take(bits, 0, entropy_bits(key_type))
            hash == sha256(to_bytes(entropy))
            new_checksum == skip_take(from_bytes(hash), 0, checksum_bits(key_type))
        IN  IF ~checksum_matches(new_checksum, checksum_to_validate)
            THEN Err("InvalidChecksum", Unit)
            ELSE Ok(Unit)

validate(mnemonic, lang) ==
    LET kt == for_mnemonic(mnemonic)
    IN  IF kt.kind # "Ok" THEN Err(kt.err, Unit)
        ELSE
        LET key_type == kt.val
            word_map == get_wordmap(lang)
            words == phrase_words(mnemonic)
        IN  IF \E i \in 1..Len(words) : get_bits(word_map, words[i]).kind # "Ok"
            THEN Err("InvalidWord", Unit)
            ELSE
            LET bits == to_validate(words, word_map)
                checksum_to_validate ==
                    skip_take(bits, entropy_bits(key_type), checksum_bits(key_type))
                entropy == skip_take(bits, 0, entropy_bits(key_type))
                hash == sha256(to_bytes(entropy))
                new_checksum == skip_take(from_bytes(hash), 0, checksum_bits(key_type))
            IN  IF \/ Len(checksum_to_validate) # checksum_bits(key_type)
                   \/ Len(entropy) # entropy_bits(key_type)
                   \/ Len(new_checksum) # checksum_bits(key_type)
                THEN Panic(Unit)
                ELSE IF ~checksum_matches(new_checksum, checksum_to_validate)
                THEN Err("InvalidChecksum", Unit)
                ELSE Ok(Unit)

\* variant: the seed is derived from the decoded entropy, not from the phrase
from_mnemonic_entropy_seed(mnemonic, lang, password) ==
    LET v == validate(mnemonic, lang)
    IN  CASE v.kind = "Err" -> Err(v.err, NoBip39)
          [] v.kind = "Panic" -> Panic(NoBip39)
          [] OTHER -> Ok([mnemonic |-> mnemonic,
                          seed |-> generate_seed(entropy_to_validate(mnemonic, lang), password),
                          lang |-> lang])

\* variant: the phrase is stored without being validated
from_mnemonic_unchecked(mnemonic, lang, password) ==
    Ok([mnemonic |-> mnemonic, seed |-> generate_seed(mnemonic, password), lang |-> lang])

from_mnemonic(mnemonic, lang, password) ==
    LET v == validate(mnemonic, lang)
    IN  CASE v.kind = "Err" -> Err(v.err, NoBip39)
          [] v.kind = "Panic" -> Panic(NoBip39)
          [] OTHER -> Ok([mnemonic |-> mnemonic,
                          seed |-> generate_seed(mnemonic, password),
                          lang |-> lang])

\* the loop of from_key: num_words reads of 11 bits, each looked up in the
\* word list; a failed read or an index outside the list panics
RECURSIVE ReadWords(_, _, _, _)
ReadWords(combined, word_list, k, num_words) ==
    IF k = num_words THEN [ok |-> TRUE, words |-> <<>>]
    ELSE LET n == read_u16(combined, 11 * k, 11)
         IN  IF ~n.ok \/ n.value >= Len(word_list)
             THEN [ok |-> FALSE, words |-> <<>>]
             ELSE LET rest == ReadWords(combined, word_list, k + 1, num_words)
                  IN  [ok |-> rest.ok, words |-> <<word_list[n.value + 1]>> \o rest.words]

\* variant: the digest is placed before the bytes instead of after them
from_key_hash_first(bytes, key_type, lang, password) ==
    LET num_words == word_count(key_type)
        word_list == get_wordlist(lang)
        bytes_hash == sha256(bytes)
        combined == bytes_hash \o bytes
        r == ReadWords(combined, word_list, 0, num_words)
    IN  IF ~r.ok THEN Panic(NoBip39)
        ELSE from_mnemonic(join(r.words), lang, password)

from_key(bytes, key_type, lang, password) ==
    LET num_words == word_count(key_type)
        word_list == get_wordlist(lang)
        bytes_hash == sha256(bytes)
        combined == bytes \o bytes_hash
        r == ReadWords(combined, word_list, 0, num_words)
    IN  IF ~r.ok THEN Panic(NoBip39)
        ELSE from_mnemonic(join(r.words), lang, password)

(***************************************************************************)
(* crypto.rs: gen_random_bytes.  A u64 is held as its eight bytes, least   *)
(* significant first: `source as u8` is the first of them and              *)
(* `source >>= 8` drops it.  draws is the stream of values rng.gen()       *)
(* returns.                                                                *)
(***************************************************************************)
\* variant: `source >>= 8` is left out
RECURSIVE GenLoop_no_shift(_, _, _, _, _)
GenLoop_no_shift(i, byte_length, source, draws, used) ==
    IF i = byte_length THEN [bytes |-> <<>>, used |-> used]
    ELSE LET fresh == (i % 8 = 0)
             src == IF fresh THEN draws[used + 1] ELSE source
             n == IF fresh THEN used + 1 ELSE used
             rest == GenLoop_no_shift(i + 1, byte_length, src, draws, n)
         IN  [bytes |-> <<Head(src)>> \o rest.bytes, used |-> rest.used]

RECURSIVE GenLoop(_, _, _, _, _)
GenLoop(i, byte_length, source, draws, used) ==
    IF i = byte_length THEN [bytes |-> <<>>, used |-> used]
    ELSE LET fresh == (i % 8 = 0)
             src == IF fresh THEN draws[used + 1] ELSE source
             n == IF fresh THEN used + 1 ELSE used
             rest == GenLoop(i + 1, byte_length, Tail(src) \o <<0>>, draws, n)
         IN  [bytes |-> <<Head(src)>> \o rest.bytes, used |-> rest.used]

gen_random_bytes(byte_length, draws) ==
    GenLoop(0, byte_length, <<0, 0, 0, 0, 0, 0, 0, 0>>, draws, 0).bytes

\* the number of times gen_random_bytes(byte_length) evaluates rng.gen()
gen_random_calls(byte_length, draws) ==
    GenLoop(0, byte_length, <<0, 0, 0, 0, 0, 0, 0, 0>>, draws, 0).used

\* Bip39::new; OsRng::new() failing is a panic (expect)
new(key_type, lang, password, rng_ok, draws) ==
    IF ~rng_ok THEN Panic(NoBip39)
    ELSE from_key(gen_random_bytes(entropy_bits(key_type) \div 8, draws),
                  key_type, lang, password)

(***************************************************************************)
(* The inputs the calls are made with.                                     *)
(***************************************************************************)
\* passwords: "" and "T"
Passwords == {<<>>, <<84>>}

\* the k-th fill byte: 0x00, 0xA5, ...
FillByte(k) == (k * 165) % 256

\* n bytes derived from the fill byte a (all zero for a = 0)
EntropyOf(n, a) == [i \in 1..n |-> (a * i + (a \div 3)) % 256]

\* entropy offered with the type t: the right length, one byte short, empty,
\* and the right length followed by one more byte
EntropyInputs(t) ==
    LET n == entropy_bits(t) \div 8
    IN  {EntropyOf(m, FillByte(k)) : m \in {0, n - 1, n}, k \in 0..(NumFill - 1)}
        \cup {EntropyOf(n, FillByte(k)) \o <<16 * x>> : k \in 0..(NumFill - 1), x \in 0..15}

\* the streams of 64-bit values the random generator may return, each value
\* as eight bytes, least significant first
MaxDraws == 4
NumStreams == 2

RngStreams ==
    {[d \in 1..MaxDraws |-> [b \in 1..8 |-> (s * 97 + d * 8 + b) % 256]] :
        s \in 0..(NumStreams - 1)}

\* the k-th replacement offset of a word index
ReplDelta(k) == (k * k * 317 + 1) % WORDS

\* the phrase built from the words ws
Phrase(ws) == join(ws)

\* ws with the word at position i replaced by w
WithWord(ws, i, w) == [ws EXCEPT ![i] = w]

\* the phrases offered to from_mnemonic, derived from the valid phrase base
\* of language lang; each is tagged with the way it was derived
Edits(base, lang) ==
    LET ws == split(base)
        n == Len(ws)
        wl == get_wordlist(lang)
        wm == get_wordmap(lang)
        plain(tag, phrase) == [edit |-> tag, pos |-> 0, phrase |-> phrase]
    IN  {plain("same", base),
         plain("leading_space", <<SP>> \o base),
         plain("trailing_space", base \o <<SP>>),
         plain("trailing_newline", base \o <<10>>),
         plain("double_space", ws[1] \o <<SP, SP>> \o Phrase(SubSeq(ws, 2, n))),
         plain("tab_separator", ws[1] \o <<9>> \o Phrase(SubSeq(ws, 2, n))),
         plain("drop_word", Phrase(SubSeq(ws, 1, n - 1))),
         plain("drop_word_keep_space", Phrase(SubSeq(ws, 1, n - 1)) \o <<SP>>),
         plain("drop_three", Phrase(SubSeq(ws, 1, n - 3))),
         plain("add_three", base \o <<SP>> \o Phrase(SubSeq(ws, 1, 3))),
         plain("empty", <<>>)}
        \cup {[edit |-> "replace", pos |-> i,
               phrase |-> Phrase(WithWord(ws, i, wl[((wm[ws[i]] + ReplDelta(k)) % WORDS) + 1]))] :
                 i \in 1..n, k \in 0..(NumRepl - 1)}
        \cup {[edit |-> "uppercase", pos |-> i,
               phrase |-> Phrase(WithWord(ws, i, [ws[i] EXCEPT ![1] = to_uppercase(@)]))] :
                 i \in {1, n}}
        \cup {[edit |-> "unknown_word", pos |-> i,
               phrase |-> Phrase(WithWord(ws, i, <<122, 122, 122>>))] : i \in {1, n}}

(***************************************************************************)
(* util.rs: 32-bit unsigned values.  A u32 is held as its 32 bits, most    *)
(* significant first, so that a shift drops the bits it moves past either  *)
(* end, as the machine does.                                               *)
(***************************************************************************)
\* Bits11::BITS
BITS == 11

U32_ZERO == [i \in 1..32 |-> 0]

\* `x as u32` for a value below 2^16
as_u32(x) == [i \in 1..32 |-> IF i <= 16 THEN 0 ELSE (x \div Pow2(32 - i)) % 2]

\* x << n and x >> n for 0 <= n < 32
shl(x, n) == [i \in 1..32 |-> IF i + n <= 32 THEN x[i + n] ELSE 0]
shr(x, n) == [i \in 1..32 |-> IF i - n >= 1 THEN x[i - n] ELSE 0]

\* x | y
bit_or(x, y) == [i \in 1..32 |-> IF x[i] = 1 \/ y[i] = 1 THEN 1 ELSE 0]

\* the value of the n most significant bits of x: (x >> (32 - n)) for n <= 16
RECURSIVE TopBitsFrom(_, _, _, _)
TopBitsFrom(x, i, n, acc) ==
    IF i > n THEN acc ELSE TopBitsFrom(x, i + 1, n, 2 * acc + x[i])

top_bits(x, n) == TopBitsFrom(x, 1, n, 0)

(***************************************************************************)
(* util.rs: BitWriter.                                                     *)
(***************************************************************************)
\* BitWriter::with_capacity: the capacity only sizes the allocation
with_capacity(capacity) == [offset |-> 0, remainder |-> U32_ZERO, inner |-> <<>>]

\* the loop of push: whole bytes leave the remainder
RECURSIVE PushDrain(_)
PushDrain(w) ==
    IF w.offset >= 8
    THEN PushDrain([offset |-> w.offset - 8,
                    remainder |-> shl(w.remainder, 8),
                    inner |-> Append(w.inner, top_bits(w.remainder, 8))])
    ELSE w

\* variant: the value is aligned as a 16-bit quantity, so its bits above
\* bit 10 come first
push_sixteen(w, source) ==
    PushDrain([offset |-> w.offset + BITS,
               remainder |-> bit_or(w.remainder, shr(shl(as_u32(source), 16), w.offset)),
               inner |-> w.inner])

\* BitWriter::push
push(w, source) ==
    LET shift == 32 - BITS
    IN  PushDrain([offset |-> w.offset + BITS,
                   remainder |-> bit_or(w.remainder, shr(shl(as_u32(source), shift), w.offset)),
                   inner |-> w.inner])

\* BitWriter::len
len(w) == Len(w.inner) * 8 + w.offset

\* variant: the bits left in the remainder are not written
into_bytes_whole_only(w) == w.inner

\* BitWriter::into_bytes
into_bytes(w) ==
    IF w.offset # 0 THEN Append(w.inner, top_bits(w.remainder, 8)) ELSE w.inner

(***************************************************************************)
(* util.rs: BitIter over a byte iterator.  source holds the bytes not yet  *)
(* taken.  A shift by 32 or more, or a negative shift amount, panics in a  *)
(* debug build; it is reported as the outcome "Panic".                     *)
(***************************************************************************)
\* BitIter::new
bit_iter_new(source) == [source |-> source, read |-> 0, buffer |-> U32_ZERO]

\* variant: the loop stops as soon as a whole byte is buffered
RECURSIVE NextFill_one_byte(_)
NextFill_one_byte(it) ==
    IF it.read < 8
    THEN IF it.source = <<>> THEN [kind |-> "None", iter |-> it]
         ELSE LET byte == Head(it.source)
                  read == it.read + 8
              IN  NextFill_one_byte([source |-> Tail(it.source),
                                     read |-> read,
                                     buffer |-> bit_or(it.buffer, shl(as_u32(byte), 32 - read))])
    ELSE [kind |-> "Some", iter |-> it]

\* the loop of next: bytes are taken until BITS bits are buffered; `?`
\* leaves the loop, and next, when the source has no more bytes
RECURSIVE NextFill(_)
NextFill(it) ==
    IF it.read < BITS
    THEN IF it.source = <<>> THEN [kind |-> "None", iter |-> it]
         ELSE LET byte == Head(it.source)
                  read == it.read + 8
              IN  IF read > 32 THEN [kind |-> "Panic", iter |-> it]
                  ELSE NextFill([source |-> Tail(it.source),
                                 read |-> read,
                                 buffer |-> bit_or(it.buffer, shl(as_u32(byte), 32 - read))])
    ELSE [kind |-> "Some", iter |-> it]

\* BitIter::next
next(it) ==
    LET f == NextFill(it)
    IN  IF f.kind # "Some" THEN [kind |-> f.kind, value |-> 0, iter |-> f.iter]
        ELSE [kind |-> "Some",
              value |-> top_bits(f.iter.buffer, BITS),
              iter |-> [source |-> f.iter.source,
                        read |-> f.iter.read - BITS,
                        buffer |-> shl(f.iter.buffer, BITS)]]

(***************************************************************************)
(* language.rs: the lazily built tables.  Each static is a sync Lazy: it   *)
(* is Empty until a first access claims it, Running while that access      *)
(* builds the value, and Done once the value is installed; an access that  *)
(* finds it Running waits.  The word map of a language is built from the   *)
(* language's word list, so building it accesses the list's static first.  *)
(* A value is identified by the thread that built it; complete tells that  *)
(* it was built from finished parts.                                       *)
(***************************************************************************)
\* number of threads that make a first access
NumThreads == 3

Threads == 1..NumThreads

\* lazy::WORDLIST_* and lazy::WORDMAP_*
Cells == {"WORDLIST", "WORDMAP"} \X Languages

EmptyCell == [state |-> "Empty", installs |-> 0, by |-> 0, complete |-> FALSE]

NoCell == <<"none", "none">>

NoValue == [cell |-> NoCell, by |-> 0, complete |-> FALSE]

IdleThread == [stack |-> <<>>, want |-> NoCell, got |-> NoValue, done |-> FALSE]

\* Language::wordlist / Language::wordmap: the static a call refers to
wordlist(lang) == <<"WORDLIST", lang>>
wordmap(lang) == <<"WORDMAP", lang>>

\* variant: an access starts building unless the value is installed
may_initialise_unless_done(c) == c.state # "Done"

\* the one access that finds the static Empty builds the value
may_initialise(c) == c.state = "Empty"

\* the statics the initialiser of c accesses before it builds:
\* gen_wordmap(&WORDLIST_*) dereferences the word list
parts(c) == IF c[1] = "WORDMAP" THEN <<wordlist(c[2])>> ELSE <<>>

\* what a value built for c now would be built from
built_complete(cells, c) ==
    c[1] = "WORDLIST" \/ (cells[wordlist(c[2])].state = "Done" /\ cells[wordlist(c[2])].complete)

(***************************************************************************)
(* The state: the last call made and what it returned; a BitWriter with    *)
(* the values pushed into it and what into_bytes returned; a BitIter with  *)
(* the bytes it was made over and what next returned; the lazily built     *)
(* tables and the threads that ask for them.                               *)
(***************************************************************************)
VARIABLES call, ret, writer, pushed, written, bit_iter, source_bytes, yielded,
          cell, thread

apiVars == <<call, ret>>
writerVars == <<writer, pushed, written>>
iterVars == <<bit_iter, source_bytes, yielded>>
lazyVars == <<cell, thread>>
vars == <<call, ret, writer, pushed, written, bit_iter, source_bytes, yielded,
          cell, thread>>

NoCall ==
    [op |-> "none", bytes |-> <<>>, key_type |-> NoType, lang |-> "none",
     password |-> <<>>, phrase |-> <<>>, base |-> <<>>, base_password |-> <<>>,
     base_seed |-> <<>>, edit |-> "none", pos |-> 0, size |-> 0]

NoRet == [kind |-> "None", err |-> "none", val |-> NoBip39]

\* no call was made and nothing is held
ApiInit ==
    /\ call = NoCall
    /\ ret = NoRet

\* no BitWriter was made
NoWriter == [state |-> "none", w |-> with_capacity(0)]

WriterInit ==
    /\ writer = NoWriter
    /\ pushed = <<>>
    /\ written = [done |-> FALSE, bytes |-> <<>>, len |-> 0]

\* no BitIter was made
NoIter == [state |-> "none", it |-> bit_iter_new(<<>>)]

IterInit ==
    /\ bit_iter = NoIter
    /\ source_bytes = <<>>
    /\ yielded = <<>>

\* no static was accessed and no thread has called
LazyInit ==
    /\ cell = [c \in Cells |-> EmptyCell]
    /\ thread = [t \in Threads |-> IdleThread]

Init ==
    /\ ApiInit
    /\ WriterInit
    /\ IterInit
    /\ LazyInit

\* Bip39::new(key_type, lang, password)
New ==
    /\ call.op = "none"
    /\ \E key_type \in MnemonicTypes, lang \in Languages, password \in Passwords,
          rng_ok \in BOOLEAN, draws \in RngStreams :
          /\ call' = [NoCall EXCEPT !.op = "new", !.key_type = key_type, !.lang = lang,
                                    !.password = password,
                                    !.bytes = IF rng_ok
                                              THEN gen_random_bytes(entropy_bits(key_type) \div 8, draws)
                                              ELSE <<>>,
                                    !.edit = IF rng_ok THEN "rng" ELSE "no_rng"]
          /\ ret' = new(key_type, lang, password, rng_ok, draws)
    /\ UNCHANGED <<writerVars, iterVars, lazyVars>>

\* Bip39::from_key(bytes, key_type, lang, password)
FromKey ==
    /\ call.op = "none"
    /\ \E key_type \in MnemonicTypes, lang \in Languages, password \in Passwords :
       \E bytes \in EntropyInputs(key_type) :
          /\ call' = [NoCall EXCEPT !.op = "from_key", !.key_type = key_type, !.lang = lang,
                                    !.password = password, !.bytes = bytes]
          /\ ret' = from_key(bytes, key_type, lang, password)
    /\ UNCHANGED <<writerVars, iterVars, lazyVars>>

\* Bip39::from_mnemonic on a phrase derived from the one just constructed;
\* the call record keeps the entropy, type, password and seed of that one
FromMnemonic ==
    /\ call.op \in {"new", "from_key"}
    /\ ret.kind = "Ok"
    /\ \E e \in Edits(ret.val.mnemonic, ret.val.lang) :
       \E lang \in (IF e.edit = "same" THEN Languages ELSE {ret.val.lang}) :
       \E password \in (IF e.edit = "same" THEN Passwords ELSE {call.password}) :
          /\ call' = [NoCall EXCEPT !.op = "from_mnemonic", !.lang = lang,
                                    !.password = password, !.phrase = e.phrase,
                                    !.base = ret.val.mnemonic, !.edit = e.edit,
                                    !.pos = e.pos, !.key_type = call.key_type,
                                    !.bytes = call.bytes,
                                    !.base_password = call.password,
                                    !.base_seed = ret.val.seed]
          /\ ret' = from_mnemonic(e.phrase, lang, password)
    /\ UNCHANGED <<writerVars, iterVars, lazyVars>>

\* the caller lets go of what it holds
Drop ==
    /\ call.op # "none"
    /\ call' = NoCall
    /\ ret' = NoRet
    /\ UNCHANGED <<writerVars, iterVars, lazyVars>>

Next == New \/ FromKey \/ FromMnemonic \/ Drop

Spec == Init /\ [][Next]_vars

(***************************************************************************)
(* Bip39::validate on its own: phrases that break more than one rule at    *)
(* once, derived from the phrase of a value just constructed.              *)
(***************************************************************************)
\* a token that is in no word list: "zzz"
UnknownWord == <<122, 122, 122>>

\* the phrases offered to validate, derived from the valid phrase base of
\* language lang; each is tagged with the way it was derived
ValidateEdits(base, lang) ==
    LET ws == split(base)
        n == Len(ws)
        wl == get_wordlist(lang)
        wm == get_wordmap(lang)
        other(i) == wl[((wm[ws[i]] + ReplDelta(i)) % WORDS) + 1]
        plain(tag, phrase) == [edit |-> tag, pos |-> 0, phrase |-> phrase]
    IN  {plain("same", base),
         plain("short", Phrase(SubSeq(ws, 1, n - 1))),
         plain("short_unknown", Phrase(WithWord(SubSeq(ws, 1, n - 1), 1, UnknownWord))),
         plain("long_unknown", base \o <<SP>> \o UnknownWord),
         plain("all_unknown_short", Phrase([i \in 1..(n - 1) |-> UnknownWord])),
         plain("empty_token", base \o <<SP>>),
         plain("empty", <<>>),
         plain("add_three", base \o <<SP>> \o Phrase(SubSeq(ws, 1, 3))),
         plain("add_three_unknown", base \o <<SP>> \o Phrase(WithWord(SubSeq(ws, 1, 3), 2, UnknownWord)))}
        \cup {[edit |-> "wrong_word", pos |-> i,
               phrase |-> Phrase(WithWord(ws, i, other(i)))] : i \in {1, 2, n}}
        \cup {[edit |-> "unknown", pos |-> i,
               phrase |-> Phrase(WithWord(ws, i, UnknownWord))] : i \in {1, n}}
        \cup {[edit |-> "unknown_and_wrong", pos |-> i,
               phrase |-> Phrase(WithWord(WithWord(ws, i, UnknownWord),
                                          (i % n) + 1, other((i % n) + 1)))] : i \in {1, n - 1, n}}

\* Bip39::validate(phrase, lang) on a phrase derived from the one just
\* constructed
Validate ==
    /\ call.op \in {"new", "from_key"}
    /\ ret.kind = "Ok"
    /\ \E e \in ValidateEdits(ret.val.mnemonic, ret.val.lang) :
          /\ call' = [NoCall EXCEPT !.op = "validate", !.lang = ret.val.lang,
                                    !.phrase = e.phrase, !.base = ret.val.mnemonic,
                                    !.edit = e.edit, !.pos = e.pos,
                                    !.key_type = call.key_type]
          /\ ret' = validate(e.phrase, ret.val.lang)
    /\ UNCHANGED <<writerVars, iterVars, lazyVars>>

ValidateNext == New \/ FromKey \/ Validate \/ Drop

ValidateSpec == Init /\ [][ValidateNext]_vars

(***************************************************************************)
(* gen_random_bytes on its own, with a generator that could be opened, and *)
(* new, which asks it for the entropy of its type.                         *)
(***************************************************************************)
\* gen_random_bytes(byte_length) for every length MaxDraws values can fill;
\* the result holds the bytes returned, the number of calls of rng.gen() and
\* the values those calls returned
GenRandomBytes ==
    /\ call.op = "none"
    /\ \E byte_length \in 0..(8 * MaxDraws), draws \in RngStreams :
          /\ call' = [NoCall EXCEPT !.op = "gen_random_bytes", !.size = byte_length]
          /\ ret' = Ok([bytes |-> gen_random_bytes(byte_length, draws),
                        calls |-> gen_random_calls(byte_length, draws),
                        draws |-> draws])
    /\ UNCHANGED <<writerVars, iterVars, lazyVars>>

RngNext == GenRandomBytes \/ New \/ Drop

RngSpec == Init /\ [][RngNext]_vars

(***************************************************************************)
(* MnemonicType on its own: the two constructors applied to sizes, the     *)
(* accessors applied to what they return, and the constructors applied to  *)
(* what the accessors return.                                              *)
(***************************************************************************)
\* largest size offered to for_word_count and for_key_size
MaxSize == 300

\* MnemonicType::for_word_count(size)
ForWordCount ==
    /\ call.op = "none"
    /\ \E size \in 0..MaxSize :
          /\ call' = [NoCall EXCEPT !.op = "for_word_count", !.size = size]
          /\ ret' = for_word_count(size)
    /\ UNCHANGED <<writerVars, iterVars, lazyVars>>

\* MnemonicType::for_key_size(size)
ForKeySize ==
    /\ call.op = "none"
    /\ \E size \in 0..MaxSize :
          /\ call' = [NoCall EXCEPT !.op = "for_key_size", !.size = size]
          /\ ret' = for_key_size(size)
    /\ UNCHANGED <<writerVars, iterVars, lazyVars>>

\* total_bits, entropy_bits, checksum_bits and word_count of the type a
\* constructor returned
Accessors ==
    /\ call.op \in {"for_word_count", "for_key_size"}
    /\ ret.kind = "Ok"
    /\ call' = [NoCall EXCEPT !.op = "accessors", !.key_type = ret.val]
    /\ ret' = Ok([total_bits |-> total_bits(ret.val),
                  entropy_bits |-> entropy_bits(ret.val),
                  checksum_bits |-> checksum_bits(ret.val),
                  word_count |-> word_count(ret.val)])
    /\ UNCHANGED <<writerVars, iterVars, lazyVars>>

\* a constructor applied to the value an accessor of a type returned
FromAccessor ==
    /\ call.op = "accessors"
    /\ \/ /\ call' = [NoCall EXCEPT !.op = "for_word_count", !.size = ret.val.word_count,
                                    !.key_type = call.key_type, !.edit = "from_accessor"]
          /\ ret' = for_word_count(ret.val.word_count)
       \/ /\ call' = [NoCall EXCEPT !.op = "for_key_size", !.size = ret.val.entropy_bits,
                                    !.key_type = call.key_type, !.edit = "from_accessor"]
          /\ ret' = for_key_size(ret.val.entropy_bits)
    /\ UNCHANGED <<writerVars, iterVars, lazyVars>>

TypeNext == ForWordCount \/ ForKeySize \/ Accessors \/ FromAccessor \/ Drop

TypeSpec == Init /\ [][TypeNext]_vars

(***************************************************************************)
(* Display of a MnemonicType: the text to_string gives for the type a      *)
(* constructor returned.  Text is a sequence of character codes.           *)
(***************************************************************************)
\* "{}" of an unsigned integer: its decimal digits, no sign and no padding
RECURSIVE DisplayUsize(_)
DisplayUsize(n) ==
    IF n < 10 THEN <<48 + n>>
    ELSE Append(DisplayUsize(n \div 10), 48 + (n % 10))

\* impl fmt::Display for MnemonicType:
\* write!(f, "{} words ({}bits)", self.word_count(), self.entropy_bits())
fmt(t) ==
    DisplayUsize(word_count(t))
    \o <<32, 119, 111, 114, 100, 115, 32, 40>>
    \o DisplayUsize(entropy_bits(t))
    \o <<98, 105, 116, 115, 41>>

\* to_string() of the type a constructor returned
Display ==
    /\ call.op \in {"for_word_count", "for_key_size"}
    /\ ret.kind = "Ok"
    /\ call' = [NoCall EXCEPT !.op = "to_string", !.key_type = ret.val, !.size = call.size]
    /\ ret' = Ok(fmt(ret.val))
    /\ UNCHANGED <<writerVars, iterVars, lazyVars>>

DisplayNext == ForWordCount \/ ForKeySize \/ Display \/ Drop

DisplaySpec == Init /\ [][DisplayNext]_vars

(***************************************************************************)
(* The lazily built tables under concurrent first accesses.  Every thread  *)
(* makes one call of wordlist(lang) or wordmap(lang).  stack holds the     *)
(* statics the thread is inside, innermost first: a frame at "force" is    *)
(* about to access its static, a frame at "build" has claimed it and runs  *)
(* its initialiser.  A thread whose static is Running elsewhere waits.     *)
(***************************************************************************)
Frame(c, at) == [c |-> c, at |-> at]

\* the frames of the statics in cs, each about to be accessed
RECURSIVE ForceFrames(_)
ForceFrames(cs) ==
    IF cs = <<>> THEN <<>> ELSE <<Frame(Head(cs), "force")>> \o ForceFrames(Tail(cs))

\* thread t calls Language::wordlist or Language::wordmap
Access(t) ==
    /\ thread[t].stack = <<>>
    /\ ~thread[t].done
    /\ \E lang \in Languages :
       \E c \in {wordlist(lang), wordmap(lang)} :
          thread' = [thread EXCEPT ![t] = [@ EXCEPT !.stack = <<Frame(c, "force")>>,
                                                    !.want = c]]
    /\ UNCHANGED <<cell, apiVars, writerVars, iterVars>>

\* Lazy::force: the value if it is installed, else the claim of the static
\* by the access that finds it free
Force(t) ==
    /\ thread[t].stack # <<>>
    /\ Head(thread[t].stack).at = "force"
    /\ LET c == Head(thread[t].stack).c
           rest == Tail(thread[t].stack)
       IN  \/ /\ cell[c].state = "Done"
              /\ thread' = [thread EXCEPT ![t] =
                               IF rest = <<>>
                               THEN [@ EXCEPT !.stack = <<>>,
                                              !.got = [cell |-> c, by |-> cell[c].by,
                                                       complete |-> cell[c].complete],
                                              !.done = TRUE]
                               ELSE [@ EXCEPT !.stack = rest]]
              /\ UNCHANGED cell
           \/ /\ cell[c].state # "Done"
              /\ may_initialise(cell[c])
              /\ cell' = [cell EXCEPT ![c].state = "Running"]
              /\ thread' = [thread EXCEPT ![t].stack =
                               ForceFrames(parts(c)) \o <<Frame(c, "build")>> \o rest]
    /\ UNCHANGED <<apiVars, writerVars, iterVars>>

\* the initialiser returns (gen_wordlist or gen_wordmap) and the value is
\* installed
Build(t) ==
    /\ thread[t].stack # <<>>
    /\ Head(thread[t].stack).at = "build"
    /\ LET c == Head(thread[t].stack).c
           rest == Tail(thread[t].stack)
       IN  /\ cell' = [cell EXCEPT ![c] = [state |-> "Done",
                                           installs |-> @.installs + 1,
                                           by |-> t,
                                           complete |-> built_complete(cell, c)]]
           /\ thread' = [thread EXCEPT ![t].stack = <<Frame(c, "force")>> \o rest]
    /\ UNCHANGED <<apiVars, writerVars, iterVars>>

LazyNext == \E t \in Threads : Access(t) \/ Force(t) \/ Build(t)

LazySpec == Init /\ [][LazyNext]_vars

(***************************************************************************)
(* The tables on their own: get_word at every index, get_bits on what it   *)
(* returned and on other words, and get_word on what get_bits returned.    *)
(***************************************************************************)
\* number of list entries per language the probe words are derived from
NumProbe == 6

\* words offered to get_bits: entries of both lists and near misses of them
ProbeWords ==
    LET entries == {get_wordlist(l)[((k * 331) % WORDS) + 1] :
                       l \in Languages, k \in 0..(NumProbe - 1)}
    IN  entries
        \cup {[w EXCEPT ![1] = to_uppercase(@)] : w \in entries}
        \cup {w \o <<SP>> : w \in entries}
        \cup {<<SP>> \o w : w \in entries}
        \cup {w \o <<10>> : w \in entries}
        \cup {SubSeq(w, 1, Len(w) - 1) : w \in entries}
        \cup {w \o w : w \in entries}
        \cup {<<>>}

\* WordList::get_word(i) on the list of a language
GetWord ==
    /\ call.op = "none"
    /\ \E lang \in Languages, i \in 0..(WORDS - 1) :
          /\ call' = [NoCall EXCEPT !.op = "get_word", !.lang = lang, !.size = i]
          /\ ret' = Ok(get_word(get_wordlist(lang), i))
    /\ UNCHANGED <<writerVars, iterVars, lazyVars>>

\* WordMap::get_bits on the word get_word just returned
GetBitsOfWord ==
    /\ call.op = "get_word"
    /\ call.edit = "none"
    /\ call' = [NoCall EXCEPT !.op = "get_bits", !.lang = call.lang, !.size = call.size,
                              !.phrase = ret.val, !.edit = "of_word"]
    /\ ret' = get_bits(get_wordmap(call.lang), ret.val)
    /\ UNCHANGED <<writerVars, iterVars, lazyVars>>

\* WordMap::get_bits on a probe word
GetBits ==
    /\ call.op = "none"
    /\ \E lang \in Languages, w \in ProbeWords :
          /\ call' = [NoCall EXCEPT !.op = "get_bits", !.lang = lang, !.phrase = w,
                                    !.edit = "probe"]
          /\ ret' = get_bits(get_wordmap(lang), w)
    /\ UNCHANGED <<writerVars, iterVars, lazyVars>>

\* WordList::get_word on the index get_bits just returned for a probe word
GetWordOfBits ==
    /\ call.op = "get_bits"
    /\ call.edit = "probe"
    /\ ret.kind = "Ok"
    /\ call' = [NoCall EXCEPT !.op = "get_word", !.lang = call.lang, !.size = ret.val,
                              !.phrase = call.phrase, !.edit = "of_bits"]
    /\ ret' = Ok(get_word(get_wordlist(call.lang), ret.val))
    /\ UNCHANGED <<writerVars, iterVars, lazyVars>>

TableNext == GetWord \/ GetBitsOfWord \/ GetBits \/ GetWordOfBits \/ Drop

TableSpec == Init /\ [][TableNext]_vars

(***************************************************************************)
(* A BitWriter: made, pushed into, and turned into bytes.                  *)
(***************************************************************************)
\* largest number of values pushed into one writer
MaxPush == 8

\* the 16-bit values pushed: 0x0401, 0xFFFF and 0xF800
Sources == {1025, 65535, 63488}

\* BitWriter::with_capacity(capacity, Bits11)
WriterNew ==
    /\ writer.state = "none"
    /\ \E capacity \in {0, 132} :
          writer' = [state |-> "live", w |-> with_capacity(capacity)]
    /\ pushed' = <<>>
    /\ UNCHANGED <<written, apiVars, iterVars, lazyVars>>

\* writer.push(source)
Push ==
    /\ writer.state = "live"
    /\ Len(pushed) < MaxPush
    /\ \E source \in Sources :
          /\ writer' = [writer EXCEPT !.w = push(@, source)]
          /\ pushed' = Append(pushed, source)
    /\ UNCHANGED <<written, apiVars, iterVars, lazyVars>>

\* writer.len() followed by writer.into_bytes(), which consumes the writer
IntoBytes ==
    /\ writer.state = "live"
    /\ written' = [done |-> TRUE, bytes |-> into_bytes(writer.w), len |-> len(writer.w)]
    /\ writer' = [NoWriter EXCEPT !.state = "consumed"]
    /\ UNCHANGED <<pushed, apiVars, iterVars, lazyVars>>

\* the bytes are let go
WriterDrop ==
    /\ writer.state = "consumed"
    /\ writer' = NoWriter
    /\ pushed' = <<>>
    /\ written' = [done |-> FALSE, bytes |-> <<>>, len |-> 0]
    /\ UNCHANGED <<apiVars, iterVars, lazyVars>>

WriterNext == WriterNew \/ Push \/ IntoBytes \/ WriterDrop

WriterSpec == Init /\ [][WriterNext]_vars

(***************************************************************************)
(* A BitIter: made over a byte sequence and asked for its next value,      *)
(* also after it returned None.                                            *)
(***************************************************************************)
\* largest number of bytes of the sequences tried in every combination
MaxBytes == 5

\* number of calls of next made after the first None
MaxPast == 2

\* the bytes the sequences are made of: 0x00, 0xFF and 0xA5
ByteValues == {0, 255, 165}

\* the byte sequences iterated over: all of up to MaxBytes bytes, and two of
\* 11 bytes, which hold exactly eight values
ByteInputs ==
    UNION {[1..n -> ByteValues] : n \in 0..MaxBytes}
    \cup {[i \in 1..11 |-> 255], [i \in 1..11 |-> (i * 47) % 256]}

\* bytes.iter().bits(Bits11): BitIter::new
IterNew ==
    /\ bit_iter.state = "none"
    /\ \E bytes \in ByteInputs :
          /\ bit_iter' = [state |-> "live", it |-> bit_iter_new(bytes)]
          /\ source_bytes' = bytes
    /\ yielded' = <<>>
    /\ UNCHANGED <<apiVars, writerVars, lazyVars>>

\* iter.next(); a panic ends the use of the iterator
IterNextCall ==
    /\ bit_iter.state = "live"
    /\ Cardinality({i \in 1..Len(yielded) : yielded[i].kind = "None"}) <= MaxPast
    /\ LET r == next(bit_iter.it)
       IN  /\ bit_iter' = [state |-> IF r.kind = "Panic" THEN "panicked" ELSE "live",
                           it |-> r.iter]
           /\ yielded' = Append(yielded, [kind |-> r.kind, value |-> r.value])
    /\ UNCHANGED <<source_bytes, apiVars, writerVars, lazyVars>>

\* the iterator is let go
IterDrop ==
    /\ bit_iter.state # "none"
    /\ bit_iter' = NoIter
    /\ source_bytes' = <<>>
    /\ yielded' = <<>>
    /\ UNCHANGED <<apiVars, writerVars, lazyVars>>

IterNext == IterNew \/ IterNextCall \/ IterDrop

IterSpec == Init /\ [][IterNext]_vars

(***************************************************************************)
(* BitWriter and BitIter together: values are pushed, the bytes taken, and *)
(* the bytes iterated over.                                                *)
(***************************************************************************)
\* largest number of values pushed before the bytes are taken
MaxGroups == 8

\* the values pushed, all below 2^11: 0, 0b10000000001 and 0b11111111111
Groups == {0, 1025, 2047}

\* writer.push(source) with an 11-bit value
PushGroup ==
    /\ writer.state = "live"
    /\ Len(pushed) < MaxGroups
    /\ \E source \in Groups :
          /\ writer' = [writer EXCEPT !.w = push(@, source)]
          /\ pushed' = Append(pushed, source)
    /\ UNCHANGED <<written, apiVars, iterVars, lazyVars>>

\* bytes.iter().bits(Bits11) over the bytes into_bytes returned
IterOverWritten ==
    /\ written.done
    /\ bit_iter.state = "none"
    /\ bit_iter' = [state |-> "live", it |-> bit_iter_new(written.bytes)]
    /\ source_bytes' = written.bytes
    /\ yielded' = <<>>
    /\ UNCHANGED <<apiVars, writerVars, lazyVars>>

\* the bytes and the iterator are let go
CodecDrop ==
    /\ writer.state = "consumed"
    /\ writer' = NoWriter
    /\ pushed' = <<>>
    /\ written' = [done |-> FALSE, bytes |-> <<>>, len |-> 0]
    /\ bit_iter' = NoIter
    /\ source_bytes' = <<>>
    /\ yielded' = <<>>
    /\ UNCHANGED <<apiVars, lazyVars>>

CodecNext ==
    WriterNew \/ PushGroup \/ IntoBytes \/ IterOverWritten \/ IterNextCall \/ CodecDrop

CodecSpec == Init /\ [][CodecNext]_vars

(***************************************************************************)
(* Notions the properties are stated with.  They are computed from the     *)
(* phrase text and the word list by plain arithmetic, not by the bit       *)
(* vectors of validate or the reader of from_key.                          *)
(***************************************************************************)
LegalWordCounts == {12, 15, 18, 21, 24}

\* the number of pieces a split on single spaces gives: the spaces plus one
TokenCount(p) == Cardinality({i \in 1..Len(p) : p[i] = SP}) + 1

\* the profile with n words
TypeOfCount(n) == CHOOSE t \in MnemonicTypes : word_count(t) = n

\* the 0-based position of each word of a word list
PositionTable(word_list) ==
    [w \in {word_list[i] : i \in 1..Len(word_list)} |->
        (CHOOSE i \in 1..Len(word_list) : word_list[i] = w) - 1]

ENGLISH_POSITIONS == PositionTable(WORDLIST_ENGLISH)
FRENCH_POSITIONS == PositionTable(WORDLIST_FRENCH)

Positions(lang) == IF lang = "English" THEN ENGLISH_POSITIONS ELSE FRENCH_POSITIONS

InWordlist(lang, w) == w \in DOMAIN Positions(lang)

\* the 0-based position of w in the word list
WordIndex(lang, w) == Positions(lang)[w]

\* the indices of the words of a phrase whose tokens are all in the word list
Indices(p, lang) ==
    LET ws == split(p)
    IN  [i \in 1..Len(ws) |-> WordIndex(lang, ws[i])]

\* bit s (0-based) of the concatenated 11-bit indices, as 0 or 1
IndexStreamBit(idx, s) == (idx[(s \div 11) + 1] \div Pow2(10 - (s % 11))) % 2

\* byte j (1-based) of the concatenated 11-bit indices
IndexStreamByte(idx, j) ==
      128 * IndexStreamBit(idx, 8 * j - 8) + 64 * IndexStreamBit(idx, 8 * j - 7)
    + 32 * IndexStreamBit(idx, 8 * j - 6) + 16 * IndexStreamBit(idx, 8 * j - 5)
    + 8 * IndexStreamBit(idx, 8 * j - 4) + 4 * IndexStreamBit(idx, 8 * j - 3)
    + 2 * IndexStreamBit(idx, 8 * j - 2) + IndexStreamBit(idx, 8 * j - 1)

\* the first nbits bits of the concatenated indices, as bytes
LeadingBytes(idx, nbits) == [j \in 1..(nbits \div 8) |-> IndexStreamByte(idx, j)]

\* the last k bits (k < 11) of the concatenated indices, as a number
TrailingBits(idx, k) == idx[Len(idx)] % Pow2(k)

\* every token of the phrase is in the word list of lang
AllInWordlist(p, lang) ==
    LET ws == split(p)
    IN  \A i \in 1..Len(ws) : InWordlist(lang, ws[i])

\* a well-formed mnemonic value
ValidBip39(b) ==
    /\ TokenCount(b.mnemonic) \in LegalWordCounts
    /\ Len(split(b.mnemonic)) = TokenCount(b.mnemonic)
    /\ b.lang \in Languages
    /\ AllInWordlist(b.mnemonic, b.lang)
    /\ LET t == TypeOfCount(TokenCount(b.mnemonic))
           idx == Indices(b.mnemonic, b.lang)
           entropy == entropy_to_validate(b.mnemonic, b.lang)
       IN  /\ Len(entropy) * 8 = entropy_bits(t)
           /\ entropy = LeadingBytes(idx, entropy_bits(t))
           /\ TrailingBits(idx, checksum_bits(t))
                = sha256(entropy)[1] \div Pow2(8 - checksum_bits(t))

\* the call was made with entropy of the length its type asks for
ExactEntropy == Len(call.bytes) * 8 = entropy_bits(call.key_type)

(***************************************************************************)
(* C1: every mnemonic value a constructor returns is well formed: a legal  *)
(* number of single-space separated words, each in the word list of its    *)
(* language, the trailing checksum bits of the indices equal to the        *)
(* leading bits of the digest of the entropy, and entropy of the length of *)
(* its type; a call that fails returns no value.                           *)
(***************************************************************************)
C1_ConstructedIsValid ==
    /\ ret.kind = "Ok" => ValidBip39(ret.val)
    /\ ret.kind # "Ok" => ret.val = NoBip39

\* a phrase with a replaced word passed validation and was constructed
C1_Witness ==
    /\ call.op = "from_mnemonic"
    /\ call.edit = "replace"
    /\ ret.kind = "Ok"
    /\ ret.val.mnemonic # call.base

(***************************************************************************)
(* C2: for entropy of the right length the phrase consists of the words    *)
(* whose indices are the successive 11-bit groups, most significant bit    *)
(* first, of the entropy bits followed by the top checksum_bits bits of    *)
(* the first digest byte; that stream has total_bits bits.                 *)
(***************************************************************************)
\* bit s (0-based) of entropy followed by the first digest byte, as 0 or 1
EntropyStreamBit(entropy, s) ==
    IF s < 8 * Len(entropy)
    THEN (entropy[(s \div 8) + 1] \div Pow2(7 - (s % 8))) % 2
    ELSE (sha256(entropy)[1] \div Pow2(7 - (s - 8 * Len(entropy)))) % 2

\* the g-th (0-based) group of 11 bits of that stream, as a number
EntropyStreamGroup(entropy, g) ==
      1024 * EntropyStreamBit(entropy, 11 * g) + 512 * EntropyStreamBit(entropy, 11 * g + 1)
    + 256 * EntropyStreamBit(entropy, 11 * g + 2) + 128 * EntropyStreamBit(entropy, 11 * g + 3)
    + 64 * EntropyStreamBit(entropy, 11 * g + 4) + 32 * EntropyStreamBit(entropy, 11 * g + 5)
    + 16 * EntropyStreamBit(entropy, 11 * g + 6) + 8 * EntropyStreamBit(entropy, 11 * g + 7)
    + 4 * EntropyStreamBit(entropy, 11 * g + 8) + 2 * EntropyStreamBit(entropy, 11 * g + 9)
    + EntropyStreamBit(entropy, 11 * g + 10)

C2_PhraseIsGroupedStream ==
    (call.op \in {"from_key", "new"} /\ call.edit # "no_rng" /\ ExactEntropy) =>
        /\ ret.kind = "Ok"
        /\ 8 * Len(call.bytes) + checksum_bits(call.key_type) = total_bits(call.key_type)
        /\ 11 * word_count(call.key_type) = total_bits(call.key_type)
        /\ Len(split(ret.val.mnemonic)) = word_count(call.key_type)
        /\ \A g \in 0..(word_count(call.key_type) - 1) :
              split(ret.val.mnemonic)[g + 1]
                = get_wordlist(call.lang)[EntropyStreamGroup(call.bytes, g) + 1]

\* a 24-word phrase was built from entropy that is not all zero
C2_Witness ==
    /\ call.op = "from_key"
    /\ call.key_type = "Type24Words"
    /\ ExactEntropy
    /\ \E i \in 1..Len(call.bytes) : call.bytes[i] # 0
    /\ ret.kind = "Ok"

(***************************************************************************)
(* C3: round trip.  Construction from entropy of the right length succeeds *)
(* and the phrase decodes to that entropy; constructing again from the     *)
(* phrase, in the same language, succeeds and decodes to the same entropy. *)
(***************************************************************************)
C3_RoundTrip ==
    /\ (call.op \in {"from_key", "new"} /\ call.edit # "no_rng" /\ ExactEntropy) =>
          /\ ret.kind = "Ok"
          /\ ret.val.lang = call.lang
          /\ entropy_to_validate(ret.val.mnemonic, ret.val.lang) = call.bytes
    /\ (call.op = "from_mnemonic" /\ call.edit = "same" /\ ExactEntropy
        /\ AllInWordlist(call.base, call.lang)) =>
          /\ ret.kind = "Ok"
          /\ ret.val.mnemonic = call.base
          /\ entropy_to_validate(ret.val.mnemonic, ret.val.lang) = call.bytes

\* a French 21-word phrase came back through from_mnemonic
C3_Witness ==
    /\ call.op = "from_mnemonic"
    /\ call.edit = "same"
    /\ call.lang = "French"
    /\ call.key_type = "Type21Words"
    /\ ExactEntropy
    /\ \E i \in 1..Len(call.bytes) : call.bytes[i] # 0
    /\ ret.kind = "Ok"
    /\ entropy_to_validate(ret.val.mnemonic, ret.val.lang) = call.bytes

(***************************************************************************)
(* C4: construction from entropy whose length does not match the type      *)
(* fails with InvalidEntropyLength and yields no value.                    *)
(***************************************************************************)
C4_WrongLengthRejected ==
    (call.op = "from_key" /\ ~ExactEntropy) =>
        /\ ret.kind = "Err"
        /\ ret.err = "InvalidEntropyLength"
        /\ ret.val = NoBip39

(***************************************************************************)
(* C5: a phrase with a legal number of tokens is rejected with InvalidWord *)
(* when some token is not exactly a word of the language's list; so is a   *)
(* valid phrase in which a letter of one word was put in upper case.       *)
(***************************************************************************)
C5_UnknownWordRejected ==
    /\ (call.op = "from_mnemonic" /\ TokenCount(call.phrase) \in LegalWordCounts
        /\ ~AllInWordlist(call.phrase, call.lang)) =>
          (ret.kind = "Err" /\ ret.err = "InvalidWord")
    /\ (call.op = "from_mnemonic" /\ call.edit = "uppercase") =>
          /\ call.phrase # call.base
          /\ TokenCount(call.phrase) \in LegalWordCounts
          /\ ret.kind = "Err" /\ ret.err = "InvalidWord"

\* the last word of a valid phrase had its first letter put in upper case
C5_Witness ==
    /\ call.op = "from_mnemonic"
    /\ call.edit = "uppercase"
    /\ call.pos = TokenCount(call.base)
    /\ ret.kind = "Err"
    /\ ret.err = "InvalidWord"

(***************************************************************************)
(* C6: a phrase with a legal number of tokens, all of them in the word     *)
(* list, is accepted exactly when the trailing checksum_bits bits of the   *)
(* concatenated indices equal the first digest byte of the entropy shifted *)
(* right by 8 - checksum_bits; otherwise it fails with InvalidChecksum.    *)
(***************************************************************************)
C6_ChecksumDecides ==
    (call.op = "from_mnemonic" /\ TokenCount(call.phrase) \in LegalWordCounts
     /\ AllInWordlist(call.phrase, call.lang)) =>
        LET t == TypeOfCount(TokenCount(call.phrase))
            idx == Indices(call.phrase, call.lang)
            entropy == LeadingBytes(idx, entropy_bits(t))
            expected == checksum(sha256(entropy)[1], checksum_bits(t))
        IN  IF TrailingBits(idx, checksum_bits(t)) = expected
            THEN ret.kind = "Ok"
            ELSE ret.kind = "Err" /\ ret.err = "InvalidChecksum"

\* a phrase of known words, three words shorter than a valid one, was
\* rejected for its checksum
C6_Witness ==
    /\ call.op = "from_mnemonic"
    /\ call.edit = "drop_three"
    /\ AllInWordlist(call.phrase, call.lang)
    /\ ret.kind = "Err"
    /\ ret.err = "InvalidChecksum"

(***************************************************************************)
(* C7: for_phrase gives what for_word_count gives for the number of pieces *)
(* of the phrase split on single spaces, so a phrase whose number of       *)
(* pieces is not 12, 15, 18, 21 or 24 is rejected with InvalidWordLength   *)
(* (the word-count error); the empty phrase is one empty piece.            *)
(***************************************************************************)
C7_WordCountDecides ==
    call.op = "from_mnemonic" =>
        /\ for_phrase(call.phrase) = for_word_count(TokenCount(call.phrase))
        /\ for_mnemonic(call.phrase) = for_word_count(TokenCount(call.phrase))
        /\ TokenCount(call.phrase) \notin LegalWordCounts =>
              /\ for_phrase(call.phrase) = Err("InvalidWordLength", NoType)
              /\ ret.kind = "Err"
              /\ ret.err = "InvalidWordLength"
        /\ call.phrase = <<>> => TokenCount(call.phrase) = 1

\* the empty phrase was rejected for its word count
C7_Witness ==
    /\ call.op = "from_mnemonic"
    /\ call.phrase = <<>>
    /\ ret.kind = "Err"
    /\ ret.err = "InvalidWordLength"

(***************************************************************************)
(* C8: a phrase with a leading space, a trailing space, two spaces in a    *)
(* row or another whitespace character is rejected with InvalidWordLength  *)
(* or InvalidWord, also when its number of pieces is legal.                *)
(***************************************************************************)
SeparatorDefect(p) ==
    \/ Len(p) = 0
    \/ p[1] = SP
    \/ p[Len(p)] = SP
    \/ \E i \in 1..(Len(p) - 1) : p[i] = SP /\ p[i + 1] = SP
    \/ \E i \in 1..Len(p) : IsWhitespace(p[i]) /\ p[i] # SP

C8_StrictSeparation ==
    (call.op = "from_mnemonic" /\ SeparatorDefect(call.phrase)) =>
        /\ ret.kind = "Err"
        /\ ret.err \in {"InvalidWordLength", "InvalidWord"}

\* one word fewer and a trailing space: a legal number of pieces, rejected
C8_Witness ==
    /\ call.op = "from_mnemonic"
    /\ call.edit = "drop_word_keep_space"
    /\ TokenCount(call.phrase) \in LegalWordCounts
    /\ ret.kind = "Err"
    /\ ret.err = "InvalidWord"

(***************************************************************************)
(* C9: a valid phrase with the word at one position replaced by another    *)
(* word of the list either fails with InvalidChecksum or is accepted with  *)
(* an entropy different from the original's.                               *)
(***************************************************************************)
C9_ReplacedWordDetected ==
    (call.op = "from_mnemonic" /\ call.edit = "replace") =>
        /\ call.phrase # call.base
        /\ AllInWordlist(call.phrase, call.lang)
        /\ \/ ret.kind = "Err" /\ ret.err = "InvalidChecksum"
           \/ /\ ret.kind = "Ok"
              /\ entropy_to_validate(ret.val.mnemonic, ret.val.lang)
                   # entropy_to_validate(call.base, call.lang)

\* the last word was replaced by one that encodes the same entropy bits and
\* another checksum, and the phrase was rejected
C9_Witness ==
    /\ call.op = "from_mnemonic"
    /\ call.edit = "replace"
    /\ call.pos = TokenCount(call.base)
    /\ LeadingBytes(Indices(call.phrase, call.lang), entropy_bits(call.key_type))
         = LeadingBytes(Indices(call.base, call.lang), entropy_bits(call.key_type))
    /\ ret.kind = "Err"
    /\ ret.err = "InvalidChecksum"

C11_SeedLength ==
    ret.kind = "Ok" =>
        /\ Len(ret.val.seed) = 64
        /\ \A j \in 1..Len(ret.val.seed) : ret.val.seed[j] \in 0..255

\* a 24-word value was constructed with the empty password
C11_Witness ==
    /\ call.op = "from_key"
    /\ call.key_type = "Type24Words"
    /\ call.password = <<>>
    /\ ret.kind = "Ok"
    /\ Len(ret.val.seed) = 64

(***************************************************************************)
(* C12: for each of the five types the accessors return (128, 4, 132, 12), *)
(* (160, 5, 165, 15), (192, 6, 198, 18), (224, 7, 231, 21) and             *)
(* (256, 8, 264, 24) as entropy bits, checksum bits, total bits and word   *)
(* count, and total = entropy + checksum = 11 * words,                     *)
(* checksum = entropy / 32, entropy = 32 * words / 3.                      *)
(***************************************************************************)
C12_DerivedConstants ==
    call.op = "accessors" =>
        LET v == ret.val
            row == <<v.entropy_bits, v.checksum_bits, v.total_bits, v.word_count>>
        IN  /\ v.total_bits = v.entropy_bits + v.checksum_bits
            /\ v.total_bits = 11 * v.word_count
            /\ v.checksum_bits * 32 = v.entropy_bits
            /\ v.entropy_bits * 3 = 32 * v.word_count
            /\ call.key_type = "Type12Words" => row = <<128, 4, 132, 12>>
            /\ call.key_type = "Type15Words" => row = <<160, 5, 165, 15>>
            /\ call.key_type = "Type18Words" => row = <<192, 6, 198, 18>>
            /\ call.key_type = "Type21Words" => row = <<224, 7, 231, 21>>
            /\ call.key_type = "Type24Words" => row = <<256, 8, 264, 24>>
            /\ call.key_type \in MnemonicTypes

\* the accessors were applied to the 21-word type
C12_Witness ==
    /\ call.op = "accessors"
    /\ call.key_type = "Type21Words"
    /\ ret.val.total_bits = 231
    /\ ret.val.checksum_bits = 7

(***************************************************************************)
(* C13: for_word_count(n) succeeds exactly for n in {12, 15, 18, 21, 24},  *)
(* with the type of n words, and otherwise fails with InvalidWordLength    *)
(* (the word-count error); for_key_size(b) succeeds exactly for b in       *)
(* {128, 160, 192, 224, 256}, with the type of b entropy bits, and         *)
(* otherwise fails with InvalidKeysize; applied to a type's word count or  *)
(* entropy bits they return that type.                                     *)
(***************************************************************************)
C13_TypeConstructors ==
    /\ call.op = "for_word_count" =>
          IF call.size \in {12, 15, 18, 21, 24}
          THEN /\ ret.kind = "Ok"
               /\ ret.val \in MnemonicTypes
               /\ word_count(ret.val) = call.size
               /\ ret.val = "Type12Words" <=> call.size = 12
               /\ ret.val = "Type24Words" <=> call.size = 24
          ELSE ret = Err("InvalidWordLength", NoType)
    /\ call.op = "for_key_size" =>
          IF call.size \in {128, 160, 192, 224, 256}
          THEN /\ ret.kind = "Ok"
               /\ ret.val \in MnemonicTypes
               /\ entropy_bits(ret.val) = call.size
               /\ ret.val = "Type12Words" <=> call.size = 128
               /\ ret.val = "Type24Words" <=> call.size = 256
          ELSE ret = Err("InvalidKeysize", NoType)
    /\ call.edit = "from_accessor" => ret = Ok(call.key_type)

\* for_key_size was applied to the entropy bits of the 21-word type
C13_Witness ==
    /\ call.op = "for_key_size"
    /\ call.edit = "from_accessor"
    /\ call.size = 224
    /\ ret = Ok("Type21Words")

(***************************************************************************)
(* C14: the phrase of a value made by new or from_key for the type t is    *)
(* word_count(t) words of the language's list joined by single spaces: it  *)
(* has word_count(t) - 1 spaces, none of them first, last or next to       *)
(* another, no other whitespace, and every piece between them is a word.   *)
(***************************************************************************)
C14_PhraseFormat ==
    (call.op \in {"new", "from_key"} /\ ret.kind = "Ok") =>
        LET p == ret.val.mnemonic
        IN  /\ Len(p) > 0
            /\ p[1] # SP
            /\ p[Len(p)] # SP
            /\ \A i \in 1..(Len(p) - 1) : ~(p[i] = SP /\ p[i + 1] = SP)
            /\ \A i \in 1..Len(p) : IsWhitespace(p[i]) => p[i] = SP
            /\ TokenCount(p) = word_count(call.key_type)
            /\ Len(split(p)) = word_count(call.key_type)
            /\ \A k \in 1..Len(split(p)) : split(p)[k] # <<>>
            /\ AllInWordlist(p, call.lang)

\* new returned a 15-word French phrase
C14_Witness ==
    /\ call.op = "new"
    /\ call.key_type = "Type15Words"
    /\ call.lang = "French"
    /\ ret.kind = "Ok"
    /\ TokenCount(ret.val.mnemonic) = 15

(***************************************************************************)
(* C15: when the random source cannot be initialised, new returns the      *)
(* typed randomness error (EntropyUnavailable in error.rs) as a failure:   *)
(* it does not panic and creates no value.                                 *)
(***************************************************************************)
C15_RandomnessFailureTyped ==
    (call.op = "new" /\ call.edit = "no_rng") =>
        /\ ret.kind = "Err"
        /\ ret.err \in {"RandomnessUnavailable", "EntropyUnavailable"}
        /\ ret.val = NoBip39

(***************************************************************************)
(* C16: from_mnemonic, for every phrase and language, and from_key, for    *)
(* every type and entropy of any length, return a value or a typed error:  *)
(* no bit read fails, no index leaves the word list, no assertion trips.   *)
(***************************************************************************)
C16_NoPanicOnInput ==
    call.op \in {"from_key", "from_mnemonic"} =>
        /\ ret.kind \in {"Ok", "Err"}
        /\ ret.kind = "Err" =>
              ret.err \in {"InvalidChecksum", "InvalidWord", "InvalidWordLength",
                           "InvalidKeysize", "InvalidEntropyLength"}

(***************************************************************************)
(* C17: under every interleaving of first calls of wordlist and wordmap,   *)
(* each table is installed at most once; a call returns only when its      *)
(* table is installed and was built from finished parts (the word map      *)
(* from the installed word list), and it returns the installed table, so   *)
(* all calls for a table return the same one; a returned table is still    *)
(* the installed one in every later state.                                 *)
(***************************************************************************)
C17_InitialisedOnce ==
    /\ \A c \in Cells :
          /\ cell[c].installs <= 1
          /\ cell[c].state = "Done" <=> cell[c].installs = 1
          /\ cell[c].state = "Done" => cell[c].complete
    /\ \A lang \in Languages :
          cell[wordmap(lang)].state = "Done" => cell[wordlist(lang)].state = "Done"
    /\ \A t \in Threads :
          thread[t].done =>
              /\ thread[t].got.cell = thread[t].want
              /\ cell[thread[t].want].state = "Done"
              /\ thread[t].got.by = cell[thread[t].want].by
              /\ thread[t].got.complete
    /\ \A t1, t2 \in Threads :
          (thread[t1].done /\ thread[t2].done /\ thread[t1].want = thread[t2].want) =>
              thread[t1].got = thread[t2].got

\* thread 1 asked for the English word map first and built the word list
\* on the way; thread 2 asked for the word map and thread 3 for the word
\* list, and both returned what thread 1 had built
C17_Witness ==
    /\ thread[1].done
    /\ thread[2].done
    /\ thread[3].done
    /\ thread[1].want = wordmap("English")
    /\ thread[2].want = wordmap("English")
    /\ thread[3].want = wordlist("English")
    /\ cell[wordlist("English")].by = 1
    /\ cell[wordmap("English")].by = 1
    /\ thread[1].got = thread[2].got
    /\ thread[3].got.by = 1

(***************************************************************************)
(* C18: the word list of every language has 2048 entries, each non-empty   *)
(* and free of whitespace, and the word map is its inverse: get_bits of    *)
(* the word at index i is i for every i in 0..2047 (so no two entries are  *)
(* equal); get_bits of a word returns an index only if the list holds the  *)
(* word there, and fails with InvalidWord for a word not in the list.      *)
(***************************************************************************)
C18_MapInvertsList ==
    /\ call.op = "get_word" =>
          /\ Len(get_wordlist(call.lang)) = 2048
          /\ ret.val # <<>>
          /\ \A k \in 1..Len(ret.val) : ~IsWhitespace(ret.val[k])
    /\ (call.op = "get_bits" /\ call.edit = "of_word") => ret = Ok(call.size)
    /\ (call.op = "get_bits" /\ call.edit = "probe") =>
          IF \E i \in 1..2048 : get_wordlist(call.lang)[i] = call.phrase
          THEN /\ ret.kind = "Ok"
               /\ ret.val \in 0..2047
               /\ get_wordlist(call.lang)[ret.val + 1] = call.phrase
          ELSE ret.kind = "Err" /\ ret.err = "InvalidWord"
    /\ (call.op = "get_word" /\ call.edit = "of_bits") => ret.val = call.phrase

\* get_bits returned 2047 for the last word of the French list
C18_Witness ==
    /\ call.op = "get_bits"
    /\ call.edit = "of_word"
    /\ call.lang = "French"
    /\ call.size = 2047
    /\ ret = Ok(2047)

(***************************************************************************)
(* C19: after k values were pushed into a BitWriter, len() is 11 * k and   *)
(* into_bytes() returns ceil(11 * k / 8) bytes whose bits, read from the   *)
(* most significant bit of the first byte, are the low 11 bits of the      *)
(* first value, most significant first, then of the second, and so on,     *)
(* followed by zero bits up to the end of the last byte; bits above bit 10 *)
(* of a value do not reach the output.                                     *)
(***************************************************************************)
\* the bit at position s (from 0) of the stream of the low 11 bits of vals
PushedBit(vals, s) ==
    (((vals[(s \div 11) + 1] % 2048) \div Pow2(10 - (s % 11))) % 2) = 1

C19_WriterStream ==
    /\ writer.state = "live" => len(writer.w) = 11 * Len(pushed)
    /\ written.done =>
          LET k == Len(pushed)
              n == Len(written.bytes)
          IN  /\ written.len = 11 * k
              /\ n = (11 * k + 7) \div 8
              /\ \A j \in 1..n : written.bytes[j] \in 0..255
              /\ \A s \in 0..(8 * n - 1) :
                    ByteBit(written.bytes[(s \div 8) + 1], s % 8)
                      = (IF s < 11 * k THEN PushedBit(pushed, s) ELSE FALSE)

\* three values, the second with bits above bit 10, were written as 5 bytes
C19_Witness ==
    /\ written.done
    /\ pushed = <<1025, 65535, 63488>>
    /\ written.bytes = <<128, 63, 252, 0, 0>>

(***************************************************************************)
(* C20: a BitIter over n bytes yields floor(8 * n / 11) values, the j-th   *)
(* (from 0) being bits 11 * j .. 11 * j + 10 of the bytes' bits read most  *)
(* significant first, each below 2048; then it returns None, for an empty  *)
(* input at the first call, and every later call returns None again; no    *)
(* call panics.                                                            *)
(***************************************************************************)
\* the bit at position s (from 0) of the bits of bytes
SourceBit(bytes, s) == (bytes[(s \div 8) + 1] \div Pow2(7 - (s % 8))) % 2

\* the value of the bits 11 * j .. 11 * j + b - 1 of bytes
RECURSIVE SourceGroup(_, _, _)
SourceGroup(bytes, j, b) ==
    IF b = 0 THEN 0
    ELSE 2 * SourceGroup(bytes, j, b - 1) + SourceBit(bytes, 11 * j + b - 1)

C20_IterGroups ==
    LET n == Len(source_bytes)
        total == (8 * n) \div 11
        somes == {i \in 1..Len(yielded) : yielded[i].kind = "Some"}
        nones == {i \in 1..Len(yielded) : yielded[i].kind = "None"}
    IN  /\ bit_iter.state # "panicked"
        /\ \A i \in 1..Len(yielded) : yielded[i].kind \in {"Some", "None"}
        /\ \A i \in somes : \A k \in nones : i < k
        /\ Cardinality(somes) <= total
        /\ nones # {} => Cardinality(somes) = total
        /\ \A i \in somes :
              /\ yielded[i].value = SourceGroup(source_bytes, i - 1, 11)
              /\ yielded[i].value < 2048

\* eleven bytes gave eight values and then None twice
C20_Witness ==
    /\ Len(source_bytes) = 11
    /\ source_bytes[1] = 47
    /\ Len(yielded) = 10
    /\ yielded[8].kind = "Some"
    /\ yielded[9].kind = "None"
    /\ yielded[10].kind = "None"

(***************************************************************************)
(* C21: Display renders a MnemonicType as "{n} words ({bits} bits)" with   *)
(* n its word count and bits its entropy bits in decimal, a single space   *)
(* standing between the bit number and "bits": "12 words (128 bits)" for   *)
(* the 12-word type.                                                       *)
(***************************************************************************)
\* the decimal digits of a number below 1000, most significant first
Digits(n) ==
    IF n < 10 THEN <<48 + n>>
    ELSE IF n < 100 THEN <<48 + (n \div 10), 48 + (n % 10)>>
    ELSE <<48 + (n \div 100), 48 + ((n \div 10) % 10), 48 + (n % 10)>>

C21_DisplayFormat ==
    (call.op = "to_string" /\ ret.kind = "Ok") =>
        /\ ret.val = Digits(word_count(call.key_type))
                     \o <<32, 119, 111, 114, 100, 115, 32, 40>>
                     \o Digits(entropy_bits(call.key_type))
                     \o <<32, 98, 105, 116, 115, 41>>
        /\ (call.key_type = "Type12Words" =>
               ret.val = <<49, 50, 32, 119, 111, 114, 100, 115, 32, 40,
                           49, 50, 56, 32, 98, 105, 116, 115, 41>>)

(***************************************************************************)
(* C22: validate reports errors in a fixed order.  A phrase whose number   *)
(* of tokens is illegal fails with InvalidWordLength (the spec's           *)
(* InvalidWordCount) even if it holds unknown tokens; a phrase with a      *)
(* legal number of tokens and an unknown token fails with InvalidWord      *)
(* whatever its checksum would be; InvalidChecksum is returned only when   *)
(* the number is legal and every token is in the word list.                *)
(***************************************************************************)
C22_ErrorPrecedence ==
    call.op = "validate" =>
        LET legal == TokenCount(call.phrase) \in LegalWordCounts
            members == AllInWordlist(call.phrase, call.lang)
        IN  /\ ~legal => (ret.kind = "Err" /\ ret.err = "InvalidWordLength")
            /\ (legal /\ ~members) => (ret.kind = "Err" /\ ret.err = "InvalidWord")
            /\ (ret.kind = "Err" /\ ret.err = "InvalidChecksum") => (legal /\ members)
            /\ (legal /\ members) =>
                  (ret.kind = "Ok" \/ (ret.kind = "Err" /\ ret.err = "InvalidChecksum"))

\* a phrase with an illegal number of tokens, one of them unknown, was
\* refused for its number of tokens
C22_Witness ==
    /\ call.op = "validate"
    /\ call.edit = "short_unknown"
    /\ TokenCount(call.phrase) \notin LegalWordCounts
    /\ ~AllInWordlist(call.phrase, call.lang)
    /\ ret.kind = "Err"
    /\ ret.err = "InvalidWordLength"

(***************************************************************************)
(* C23: when k values, each below 2048, were pushed into a BitWriter and   *)
(* a BitIter runs over the bytes into_bytes returned, the first k calls of *)
(* next return the k values in the order they were pushed and every later  *)
(* call returns None: the zero bits that fill the last byte give no value. *)
(***************************************************************************)
C23_RoundTrip ==
    (written.done /\ bit_iter.state # "none") =>
        /\ \A i \in 1..Len(pushed) : pushed[i] < 2048
        /\ bit_iter.state = "live"
        /\ \A i \in 1..Len(yielded) :
              IF i <= Len(pushed)
              THEN yielded[i].kind = "Some" /\ yielded[i].value = pushed[i]
              ELSE yielded[i].kind = "None"

\* three values, the last of them zero and followed by seven zero bits in
\* the last byte, came back and then None
C23_Witness ==
    /\ written.done
    /\ pushed = <<1025, 2047, 0>>
    /\ Len(written.bytes) = 5
    /\ Len(yielded) = 4
    /\ yielded[3] = [kind |-> "Some", value |-> 0]
    /\ yielded[4].kind = "None"

(***************************************************************************)
(* C24: gen_random_bytes(n) returns n bytes and asks the generator for a   *)
(* 64-bit value ceil(n / 8) times; byte i (from 0) of the result is byte   *)
(* i mod 8, counted from the least significant, of value floor(i / 8), so  *)
(* no byte of a value is used at two places; new obtains entropy_bits / 8  *)
(* bytes for its type.                                                     *)
(***************************************************************************)
C24_RandomBytes ==
    /\ (call.op = "gen_random_bytes" /\ ret.kind = "Ok") =>
          LET n == call.size
              bytes == ret.val.bytes
          IN  /\ Len(bytes) = n
              /\ ret.val.calls = (n + 7) \div 8
              /\ \A i \in 0..(n - 1) :
                    bytes[i + 1] = ret.val.draws[(i \div 8) + 1][(i % 8) + 1]
              /\ \A i, j \in 1..n : bytes[i] = bytes[j] => i = j
    /\ (call.op = "new" /\ call.edit = "rng") =>
          /\ Len(call.bytes) = entropy_bits(call.key_type) \div 8
          /\ \E draws \in RngStreams :
                \A i \in 0..(Len(call.bytes) - 1) :
                    call.bytes[i + 1] = draws[(i \div 8) + 1][(i % 8) + 1]

\* 20 bytes were asked for: three values were drawn, and the last four bytes
\* are the low half of the third
C24_Witness ==
    /\ call.op = "gen_random_bytes"
    /\ call.size = 20
    /\ ret.kind = "Ok"
    /\ ret.val.calls = 3
    /\ Len(ret.val.bytes) = 20
    /\ ret.val.bytes[17] = ret.val.draws[3][1]
    /\ ret.val.bytes[20] = ret.val.draws[3][4]

====
